---- MODULE Spec2Model ----
(***************************************************************************)
(* Verification model of the build configuration helpers of the            *)
(* frontend-auth-boilerplate repository:                                   *)
(*   - getPublicUrlOrPath            (webpack/utils/utils.mjs)             *)
(*   - getHttpsConfig and friends    (webpack/src/httpsConfig.mjs)         *)
(*   - the connection loader and the environment configurations           *)
(*                                   (webpack/connection, webpack/config)  *)
(*   - modules()                     (webpack/common/modules/modules.mjs)  *)
(*   - createWebpackAliases          (webpack/common/helpers, routes)      *)
(*   - resolveModule                 (webpack/utils/utils.mjs)             *)
(*   - the merged configuration      (config/webpack.config.js)            *)
(*   - getStyleLoaders               (webpack/common/rules)                *)
(*   - the commit message rules      (commitlint.config.ts)                *)
(*                                                                         *)
(* JavaScript strings are sequences of one-character strings; the value    *)
(* undefined is the sentinel Undefined, which is no such sequence.         *)
(***************************************************************************)
EXTENDS Integers, Sequences, FiniteSets, TLC

VARIABLES
    \* ---- getPublicUrlOrPath (utils.mjs) ----
    isEnvDevelopment,   \* first argument
    homepage,           \* second argument (string or Undefined)
    envPublicUrl,       \* third argument (string or Undefined)
    urlPc,              \* "off" | "start" | "exported" | "plugins" | "threw"
    urlResult,          \* the returned string (Undefined until the return)
    urlConsole,         \* console.error calls made by the function
    clientEnvArg,       \* argument webpack.plugins.mjs gives getClientEnvironment
    \* ---- httpsConfig.mjs ----
    HTTPS,              \* process.env.HTTPS (JS value)
    crtFile,            \* certs/server.crt on disk: "missing" or its content kind
    keyFile,            \* certs/server.key on disk: "missing" or its content kind
    httpsPc,            \* position of the running call
    httpsResult,        \* outcome of the call
    httpsConsole,       \* console.log calls made by validateKeyAndCerts
    jwe,                \* the local variable jwe of validateKeyAndCerts
    \* ---- connection loader and environment configurations ----
    NODE_ENV,           \* process.env.NODE_ENV (string or Undefined)
    disk,               \* which configuration modules can be imported
    loadPc,             \* position of the loader / configuration function
    envConfigPath,      \* module selected by the connection loader
    exported,           \* the promise exported by the connection loader
    plugins, rules, resolve,   \* locals of the environment config function
    config,             \* promise returned by the environment config function
    loadConsole,        \* console.error calls
    imported,           \* dynamic imports attempted so far, in order
    \* ---- modules() (modules.mjs) ----
    tsConfig,           \* whether tsconfig.json exists
    jsConfig,           \* whether jsconfig.json exists
    baseUrl,            \* compilerOptions.baseUrl of the file that exists
    tsInstalled,        \* whether import of the typescript package succeeds
    jsImportable,       \* whether import of jsconfig.json succeeds
    modPc,              \* position of the running modules() call
    modResult,          \* outcome of modules()
    modTrace,           \* effects so far: loading TypeScript, reading files
    \* ---- createWebpackAliases (webpack.helpers.mjs, webpack.aliases.mjs) ----
    aliases,            \* the argument of createWebpackAliases
    aliasPc,            \* "off" | "start" | "created" | "again"
    aliasResult,        \* what createWebpackAliases(aliases) returned
    aliasAgain,         \* what createWebpackAliases(aliasResult) returned
    webpackAliases,     \* the default export of webpack.aliases.mjs
    \* ---- resolveModule (utils.mjs, paths.mjs) ----
    files,              \* the files that exist under the project root
    filePath,           \* second argument of resolveModule
    resolvePc,          \* "off" | "start" | "resolved"
    resolved,           \* the path resolveModule returned
    \* ---- config/webpack.config.js ----
    cfgNodeEnv,         \* process.env.NODE_ENV when webpack.common.js is evaluated
    envProduction,      \* env.production of the call
    mergePc,            \* "off" | "start" | "called" | "imported" | "returned"
    commonExport,       \* default export of webpack.common.js
    envConfig,          \* default export of the imported environment file
    merged,             \* the configuration the function resolves with
    \* ---- webpack.rules.mjs: the style rules ----
    styleNodeEnv,       \* process.env.NODE_ENV
    GENERATE_SOURCEMAP, \* process.env.GENERATE_SOURCEMAP
    publicUrlOrPath,    \* paths.publicUrlOrPath
    stylePc,            \* "off" | "start" | "css" | "cssModule" | "sass"
    cssRule,            \* cssRule.use
    cssModuleRule,      \* cssModuleRule.use
    sassRule,           \* sassRule.use
    \* ---- commitlint.config.ts ----
    commitType,         \* type of the commit header
    commitScope,        \* scope of the commit header ("" when it has none)
    commitVia,          \* "none" | "prompt" | "hand": how the header was written
    commitPc,           \* "off" | "start" | "written" | "linted"
    lintErrors          \* names of the rules of this file the header breaks

urlVars   == <<isEnvDevelopment, homepage, envPublicUrl, urlPc, urlResult,
               urlConsole, clientEnvArg>>
httpsVars == <<HTTPS, crtFile, keyFile, httpsPc, httpsResult, httpsConsole, jwe>>
loadVars  == <<NODE_ENV, disk, loadPc, envConfigPath, exported, plugins, rules,
               resolve, config, loadConsole, imported>>
modVars   == <<tsConfig, jsConfig, baseUrl, tsInstalled, jsImportable, modPc,
               modResult, modTrace>>
aliasVars == <<aliases, aliasPc, aliasResult, aliasAgain, webpackAliases>>
\* the groups added after the first four
resolveVars == <<files, filePath, resolvePc, resolved>>
mergeVars == <<cfgNodeEnv, envProduction, mergePc, commonExport, envConfig, merged>>
styleVars == <<styleNodeEnv, GENERATE_SOURCEMAP, publicUrlOrPath, stylePc, cssRule,
               cssModuleRule, sassRule>>
commitVars == <<commitType, commitScope, commitVia, commitPc, lintErrors>>
restVars  == <<aliasVars, resolveVars, mergeVars, styleVars, commitVars>>
vars      == <<urlVars, httpsVars, loadVars, modVars, restVars>>

----------------------------------------------------------------------------
(* JavaScript values and strings                                           *)

Undefined == <<"undefined">>

\* ToBoolean of a string-or-undefined value: undefined and '' are falsy.
Truthy(s) == s # Undefined /\ s # <<>>

endsWith(s, c) == Len(s) > 0 /\ s[Len(s)] = c
startsWith(s, c) == Len(s) > 0 /\ s[1] = c

\* s.slice(0, -1)
sliceLast(s) == IF Len(s) = 0 THEN s ELSE SubSeq(s, 1, Len(s) - 1)

----------------------------------------------------------------------------
(* new URL(input, base): the WHATWG URL parser as far as it decides        *)
(* whether the constructor throws and what .pathname is.  The base is      *)
(* always one of the two stub domains, an http URL with host localhost     *)
(* and path "/".  Characters outside the input alphabet of this model      *)
(* (credentials '@', IPv6 brackets, percent escapes in hosts, the file     *)
(* scheme) are not parsed.                                                 *)

AsciiAlpha == {"a","b","c","d","e","f","g","h","i","j","k","l","m","n","o",
               "p","q","r","s","t","u","v","w","x","y","z"}
AsciiDigit == {"0","1","2","3","4","5","6","7","8","9"}
SchemeChars == AsciiAlpha \cup AsciiDigit \cup {"+", "-", "."}

http == <<"h","t","t","p">>
SpecialSchemes == { http,
                    <<"h","t","t","p","s">>,
                    <<"w","s">>, <<"w","s","s">>,
                    <<"f","t","p">> }

\* Fallback domain used for relative URLs, already parsed.
stubDomain(isDev) ==
    [scheme |-> http,
     host   |-> <<"l","o","c","a","l","h","o","s","t">>,
     port   |-> IF isDev THEN <<"5","1","1","4">> ELSE <<"8","0","8","0">>,
     path   |-> << <<>> >>]

Failure == [ok |-> FALSE, opaque |-> FALSE, path |-> <<>>]
ListPath(p) == [ok |-> TRUE, opaque |-> FALSE, path |-> p]
OpaquePath(str) == [ok |-> TRUE, opaque |-> TRUE, path |-> str]

\* scheme start state / scheme state: index of the ':' ending a scheme, or 0.
RECURSIVE SchemeScan(_, _)
SchemeScan(s, i) ==
    IF i > Len(s) THEN 0
    ELSE IF s[i] = ":" THEN i
    ELSE IF s[i] \in SchemeChars THEN SchemeScan(s, i + 1)
    ELSE 0

SchemeEnd(s) == IF Len(s) > 0 /\ s[1] \in AsciiAlpha THEN SchemeScan(s, 2) ELSE 0

\* shorten a path (never a file URL here): drop the last segment, if any.
Shorten(path) == IF Len(path) = 0 THEN path ELSE SubSeq(path, 1, Len(path) - 1)

IsSingleDot(buf) == buf \in { <<".">>, <<"%","2","e">>, <<"%","2","E">> }
IsDoubleDot(buf) ==
    buf \in { a \o b : a \in { <<".">>, <<"%","2","e">>, <<"%","2","E">> },
                       b \in { <<".">>, <<"%","2","e">>, <<"%","2","E">> } }

\* UTF-8 percent-encode a code point using the path percent-encode set.
PathEncode(c) ==
    CASE c = " "  -> <<"%","2","0">>
      [] c = "<"  -> <<"%","3","C">>
      [] c = ">"  -> <<"%","3","E">>
      [] c = "{"  -> <<"%","7","B">>
      [] c = "}"  -> <<"%","7","D">>
      [] OTHER    -> <<c>>

IsSlash(c, special) == c = "/" \/ (special /\ c = "\\")

\* path state, from position i with the segments and the buffer so far.
RECURSIVE PathState(_, _, _, _, _)
PathState(s, i, path, buf, special) ==
    LET atEnd == i > Len(s)
        slash == ~atEnd /\ IsSlash(s[i], special)
    IN  IF atEnd \/ slash \/ s[i] \in {"?", "#"}
        THEN LET path1 ==
                    IF IsDoubleDot(buf)
                    THEN IF slash THEN Shorten(path)
                                  ELSE Append(Shorten(path), <<>>)
                    ELSE IF IsSingleDot(buf)
                    THEN IF slash THEN path ELSE Append(path, <<>>)
                    ELSE Append(path, buf)
             IN  IF slash THEN PathState(s, i + 1, path1, <<>>, special)
                          ELSE ListPath(path1)
        ELSE PathState(s, i + 1, path, buf \o PathEncode(s[i]), special)

\* first position >= i holding a character of stop, or Len(s) + 1.
RECURSIVE FindFrom(_, _, _)
FindFrom(s, i, stop) ==
    IF i > Len(s) \/ s[i] \in stop THEN i ELSE FindFrom(s, i + 1, stop)

\* special authority ignore slashes state: first position >= i with no slash.
RECURSIVE SkipSlashes(_, _)
SkipSlashes(s, i) ==
    IF i <= Len(s) /\ s[i] \in {"/", "\\"} THEN SkipSlashes(s, i + 1) ELSE i

ForbiddenHost == {" ", "#", "/", ":", "<", ">", "?", "@", "[", "\\", "]", "^", "|"}
ForbiddenDomain == ForbiddenHost \cup {"%"}

\* host parser: does it return a host?  (empty special hosts are rejected
\* by the host state before the parser is called)
HostOk(host, special) ==
    \A k \in 1..Len(host) :
        host[k] \notin (IF special THEN ForbiddenDomain ELSE ForbiddenHost)

DigitValue(c) == CHOOSE d \in 0..9 : ToString(d) = c

RECURSIVE PortValue(_, _)
PortValue(p, acc) ==
    IF Len(p) = 0 THEN acc
    ELSE PortValue(Tail(p), acc * 10 + DigitValue(Head(p)))

\* port state: only ASCII digits, and at most 2^16 - 1.
PortOk(p) ==
    /\ \A k \in 1..Len(p) : p[k] \in AsciiDigit
    /\ PortValue(p, 0) <= 65535

\* authority state, host state, port state and path start state, from the
\* first character after the slashes.
AuthorityState(s, i, special) ==
    LET stop   == IF special THEN {"/", "?", "#", "\\"} ELSE {"/", "?", "#"}
        e      == FindFrom(s, i, stop)               \* end of the authority
        colon  == FindFrom(s, i, {":"})
        hasPort == colon < e
        hostEnd == IF hasPort THEN colon ELSE e
        host   == SubSeq(s, i, hostEnd - 1)
        port   == IF hasPort THEN SubSeq(s, colon + 1, e - 1) ELSE <<>>
    IN  IF hasPort /\ host = <<>> THEN Failure
        ELSE IF special /\ host = <<>> THEN Failure
        ELSE IF ~HostOk(host, special) THEN Failure
        ELSE IF ~PortOk(port) THEN Failure
        ELSE IF special
             THEN IF e <= Len(s) /\ IsSlash(s[e], special)
                  THEN PathState(s, e + 1, <<>>, <<>>, special)
                  ELSE PathState(s, e, <<>>, <<>>, special)
             ELSE IF e <= Len(s) /\ s[e] = "/"
                  THEN PathState(s, e + 1, <<>>, <<>>, special)
                  ELSE ListPath(<<>>)

\* relative state and relative slash state; r is the input after a scheme
\* equal to that of the base, or the whole input when it has no scheme.
RelativeState(r, base) ==
    IF Len(r) = 0 THEN ListPath(base.path)
    ELSE IF IsSlash(r[1], TRUE)
    THEN IF Len(r) >= 2 /\ IsSlash(r[2], TRUE)
         THEN AuthorityState(r, SkipSlashes(r, 3), TRUE)
         ELSE PathState(r, 2, <<>>, <<>>, TRUE)
    ELSE IF r[1] \in {"?", "#"} THEN ListPath(base.path)
    ELSE PathState(r, 1, Shorten(base.path), <<>>, TRUE)

\* basic URL parser with a base URL.
ParseUrl(s, base) ==
    LET e      == SchemeEnd(s)
        scheme == SubSeq(s, 1, e - 1)
        rest   == SubSeq(s, e + 1, Len(s))
    IN  IF e = 0 THEN RelativeState(s, base)
        ELSE IF scheme \in SpecialSchemes
        THEN IF scheme = base.scheme
             THEN IF Len(rest) >= 2 /\ rest[1] = "/" /\ rest[2] = "/"
                  THEN AuthorityState(rest, SkipSlashes(rest, 3), TRUE)
                  ELSE RelativeState(rest, base)
             ELSE AuthorityState(rest, SkipSlashes(rest, 1), TRUE)
        ELSE IF startsWith(rest, "/")
        THEN IF Len(rest) >= 2 /\ rest[2] = "/"
             THEN AuthorityState(rest, 3, FALSE)
             ELSE PathState(rest, 2, <<>>, <<>>, FALSE)
        ELSE OpaquePath(SubSeq(rest, 1, FindFrom(rest, 1, {"?", "#"}) - 1))

\* URL path serializer.
RECURSIVE SerializePath(_)
SerializePath(path) ==
    IF Len(path) = 0 THEN <<>>
    ELSE <<"/">> \o Head(path) \o SerializePath(Tail(path))

pathname(url) == IF url.opaque THEN url.path ELSE SerializePath(url.path)


----------------------------------------------------------------------------
(* getPublicUrlOrPath, utils.mjs                                           *)

\* Ensure the value has a trailing slash.
withTrailingSlash(s) == IF endsWith(s, "/") THEN s ELSE s \o <<"/">>

Returns(v, log) == [value |-> v, console |-> log, threw |-> FALSE]
\* an exception leaves the function: nothing is returned
Throws(log) == [value |-> Undefined, console |-> log, threw |-> TRUE]

\* the final statement: default to the root path.
defaultRoot == Returns(<<"/">>, <<>>)

\* mutant: the homepage is parsed outside a try block
fromHomepage_uncaught(isDev, home) ==
    IF Truthy(home)
    THEN LET h   == withTrailingSlash(home)
             url == ParseUrl(h, stubDomain(isDev))
         IN  IF url.ok
             THEN Returns(IF isDev
                          THEN IF startsWith(h, ".") THEN <<"/">> ELSE pathname(url)
                          ELSE IF startsWith(h, ".") THEN h ELSE pathname(url),
                          <<>>)
             ELSE Throws(<<>>)
    ELSE defaultRoot

\* mutant: in production a relative homepage is reduced to its pathname too
fromHomepage_alwaysPathname(isDev, home) ==
    IF Truthy(home)
    THEN LET h   == withTrailingSlash(home)
             url == ParseUrl(h, stubDomain(isDev))
         IN  IF url.ok
             THEN Returns(IF isDev
                          THEN IF startsWith(h, ".") THEN <<"/">> ELSE pathname(url)
                          ELSE pathname(url),
                          <<>>)
             ELSE Returns(defaultRoot.value, <<"Invalid homepage URL:">>)
    ELSE defaultRoot

\* the if (homepage) block and what follows it.
fromHomepage(isDev, home) ==
    IF Truthy(home)
    THEN LET h   == withTrailingSlash(home)
             url == ParseUrl(h, stubDomain(isDev))
         IN  IF url.ok
             THEN Returns(IF isDev
                          THEN IF startsWith(h, ".") THEN <<"/">> ELSE pathname(url)
                          ELSE IF startsWith(h, ".") THEN h ELSE pathname(url),
                          <<>>)
             ELSE Returns(defaultRoot.value, <<"Invalid homepage URL:">>)
    ELSE defaultRoot

\* mutant: a usable homepage is preferred to PUBLIC_URL
getPublicUrlOrPath_homepageFirst(isDev, home, envUrl) ==
    IF Truthy(home) /\ ParseUrl(withTrailingSlash(home), stubDomain(isDev)).ok
    THEN fromHomepage(isDev, home)
    ELSE IF Truthy(envUrl)
    THEN LET e   == withTrailingSlash(envUrl)
             url == ParseUrl(e, stubDomain(isDev))
         IN  IF url.ok
             THEN Returns(IF isDev
                          THEN IF startsWith(e, ".") THEN <<"/">> ELSE pathname(url)
                          ELSE e,
                          <<>>)
             ELSE Returns(defaultRoot.value, <<"Invalid PUBLIC_URL:">>)
    ELSE defaultRoot

\* mutant: production returns the pathname of PUBLIC_URL, as development does
getPublicUrlOrPath_pathnameInProduction(isDev, home, envUrl) ==
    IF Truthy(envUrl)
    THEN LET e   == withTrailingSlash(envUrl)
             url == ParseUrl(e, stubDomain(isDev))
         IN  IF url.ok
             THEN Returns(IF startsWith(e, ".") /\ isDev THEN <<"/">> ELSE pathname(url),
                          <<>>)
             ELSE LET rest == fromHomepage(isDev, home)
                  IN  [rest EXCEPT !.console = <<"Invalid PUBLIC_URL:">> \o rest.console]
    ELSE fromHomepage(isDev, home)

getPublicUrlOrPath(isDev, home, envUrl) ==
    IF Truthy(envUrl)
    THEN LET e   == withTrailingSlash(envUrl)
             url == ParseUrl(e, stubDomain(isDev))
         IN  IF url.ok
             THEN Returns(IF isDev
                          THEN IF startsWith(e, ".") THEN <<"/">> ELSE pathname(url)
                          ELSE e,
                          <<>>)
             ELSE LET rest == fromHomepage(isDev, home)
                  IN  [rest EXCEPT !.console = <<"Invalid PUBLIC_URL:">> \o rest.console]
    ELSE fromHomepage(isDev, home)

\* Inputs: every string over UrlAlphabet of a bounded length, alone or after
\* a prefix that gives it a scheme (a: is not special, http: is) or makes it
\* a full http URL with a host.
UrlAlphabet == {"a", "/", ".", "?"}
UrlPrefixes == { <<>>, <<"a",":">>, <<"h","t","t","p",":">>,
                 <<"h","t","t","p",":","/","/","a">>,
                 <<"h","t","t","p",":","/","/","a",":">> }
MaxEnvLen == 2
MaxHomeLen == 2

StringsUpTo(n) == UNION { [1..k -> UrlAlphabet] : k \in 0..n }
UrlInputs(prefixes, n) ==
    {Undefined} \cup { p \o b : p \in prefixes, b \in StringsUpTo(n) }

UrlIdle ==
    /\ isEnvDevelopment = FALSE
    /\ homepage = Undefined
    /\ envPublicUrl = Undefined
    /\ urlPc = "off"
    /\ urlResult = Undefined
    /\ urlConsole = <<>>
    /\ clientEnvArg = Undefined

InitUrl ==
    /\ isEnvDevelopment \in BOOLEAN
    /\ homepage \in UrlInputs(UrlPrefixes, MaxHomeLen)
    /\ envPublicUrl \in UrlInputs(UrlPrefixes, MaxEnvLen)
    /\ urlPc = "start"
    /\ urlResult = Undefined
    /\ urlConsole = <<>>
    /\ clientEnvArg = Undefined

\* utils.mjs is evaluated: export const publicUrlOrPath = getPublicUrlOrPath(...)
EvalUtils ==
    /\ urlPc = "start"
    /\ LET r == getPublicUrlOrPath(isEnvDevelopment, homepage, envPublicUrl)
       IN  /\ urlResult' = r.value
           /\ urlConsole' = r.console
           /\ urlPc' = IF r.threw THEN "threw" ELSE "exported"
    /\ UNCHANGED <<isEnvDevelopment, homepage, envPublicUrl, clientEnvArg>>
    /\ UNCHANGED <<httpsVars, loadVars, modVars, restVars>>

\* webpack.plugins.mjs is evaluated:
\* const env = getClientEnvironment(paths.publicUrlOrPath.slice(0, -1))
EvalPlugins ==
    /\ urlPc = "exported"
    /\ clientEnvArg' = sliceLast(urlResult)
    /\ urlPc' = "plugins"
    /\ UNCHANGED <<isEnvDevelopment, homepage, envPublicUrl, urlResult, urlConsole>>
    /\ UNCHANGED <<httpsVars, loadVars, modVars, restVars>>


----------------------------------------------------------------------------
(* JavaScript values of process.env and of the comparisons made on them    *)

JsUndefined == [type |-> "undefined", val |-> ""]
JsString(str) == [type |-> "string", val |-> str]
JsBoolean(b) == [type |-> "boolean", val |-> IF b THEN "true" ELSE "false"]

\* a === b: same type and same value, no conversion.
StrictEquals(a, b) == a.type = b.type /\ a.val = b.val

\* ToBoolean
JsTruthy(a) ==
    CASE a.type = "undefined" -> FALSE
      [] a.type \in {"object", "function"} -> TRUE
      [] a.type = "string"    -> a.val # ""
      [] a.type = "boolean"   -> a.val = "true"

\* a || b
JsOr(a, b) == IF JsTruthy(a) THEN a ELSE b

\* process.env holds strings only: a variable is unset or a string.
EnvValues(strs) == {JsUndefined} \cup { JsString(x) : x \in strs }

----------------------------------------------------------------------------
(* httpsConfig.mjs                                                         *)

Pending == [state |-> "pending", kind |-> "none", value |-> <<>>]
Resolved(kind, v) == [state |-> "resolved", kind |-> kind, value |-> v]
Rejected(err) == [state |-> "rejected", kind |-> "error", value |-> <<err>>]
\* outcomes of a synchronous call
Returned(kind, v) == [state |-> "returned", kind |-> kind, value |-> v]
Threw(err) == [state |-> "threw", kind |-> "error", value |-> <<err>>]

\* A file of src/webpack/certs is missing or has a content.  What the jose
\* library makes of a content is a property of the content:
\*   pem      certificate text includes 'BEGIN CERTIFICATE'
\*   imports  importSPKI / importPKCS8 accepts the text
\*   pairs    (key only) compactDecrypt with this key opens the test message
Missing == [exists |-> FALSE, pem |-> FALSE, imports |-> FALSE, pairs |-> FALSE]
CrtContents == [exists : {TRUE}, pem : BOOLEAN, imports : BOOLEAN, pairs : {FALSE}]
KeyContents == [exists : {TRUE}, pem : {FALSE}, imports : BOOLEAN, pairs : BOOLEAN]

\* fs.existsSync(file)
existsSync(file) == file.exists

NotFoundError == "can't be found"

\* readEnvFile(file, type): the content, or the thrown error.
readEnvFile(file) ==
    IF ~existsSync(file)
    THEN [threw |-> TRUE, error |-> NotFoundError, content |-> file]
    ELSE [threw |-> FALSE, error |-> "", content |-> file]

\* const isHttps = process.env.HTTPS === true ? 'https' : 'http'
isHttps(envHttps) ==
    IF StrictEquals(envHttps, JsBoolean(TRUE)) THEN JsString("https") ELSE JsString("http")

\* the condition of the if statement of getHttpsConfig
takesCertificates(envHttps, crt, key) ==
    JsTruthy(isHttps(envHttps)) /\ existsSync(crt) /\ existsSync(key)

\* first try block of validateKeyAndCerts: what is logged, and jwe.
validateCert(crt) ==
    IF ~crt.pem
    THEN [log |-> <<"error: Certificate is not in valid PEM format.">>, jwe |-> "undefined"]
    ELSE IF ~crt.imports
    THEN [log |-> <<"error: importSPKI">>, jwe |-> "undefined"]
    ELSE [log |-> <<>>, jwe |-> "jwe"]

\* second try block of validateKeyAndCerts: what is logged.
validateKey(key, j) ==
    IF ~key.imports THEN <<"error: importPKCS8">>
    ELSE IF j = "undefined" \/ ~key.pairs THEN <<"error: compactDecrypt">>
    ELSE <<"Decrypted message: test">>

HttpsValues == {"true", "false", "1", ""}

HttpsIdle ==
    /\ HTTPS = JsUndefined
    /\ crtFile = Missing
    /\ keyFile = Missing
    /\ httpsPc = "off"
    /\ httpsResult = Pending
    /\ httpsConsole = <<>>
    /\ jwe = "undefined"

InitHttps ==
    /\ HTTPS \in EnvValues(HttpsValues)
    /\ crtFile \in {Missing} \cup CrtContents
    /\ keyFile \in {Missing} \cup KeyContents
    /\ httpsPc \in {"getHttpsConfig", "readEnvFile"}
    /\ httpsResult = Pending
    /\ httpsConsole = <<>>
    /\ jwe = "undefined"

\* getHttpsConfig() up to its await, or to its return when the if is not taken.
GetHttpsConfig ==
    /\ httpsPc = "getHttpsConfig"
    /\ IF takesCertificates(HTTPS, crtFile, keyFile)
       THEN LET cert == readEnvFile(crtFile)
                key  == readEnvFile(keyFile)
            IN  IF cert.threw \/ key.threw
                THEN /\ httpsResult' = Rejected(NotFoundError)
                     /\ httpsPc' = "done"
                ELSE /\ httpsResult' = Pending
                     /\ httpsPc' = "validateCert"
       ELSE /\ httpsResult' = Resolved("protocol", <<isHttps(HTTPS).val>>)
            /\ httpsPc' = "done"
    /\ UNCHANGED <<HTTPS, crtFile, keyFile, httpsConsole, jwe>>
    /\ UNCHANGED <<urlVars, loadVars, modVars, restVars>>

\* validateKeyAndCerts, first try/catch.
ValidateCert ==
    /\ httpsPc = "validateCert"
    /\ LET r == validateCert(crtFile)
       IN  /\ httpsConsole' = httpsConsole \o r.log
           /\ jwe' = r.jwe
    /\ httpsPc' = "validateKey"
    /\ UNCHANGED <<HTTPS, crtFile, keyFile, httpsResult>>
    /\ UNCHANGED <<urlVars, loadVars, modVars, restVars>>

\* validateKeyAndCerts, second try/catch; the function then returns.
ValidateKey ==
    /\ httpsPc = "validateKey"
    /\ httpsConsole' = httpsConsole \o validateKey(keyFile, jwe)
    /\ httpsPc' = "validated"
    /\ UNCHANGED <<HTTPS, crtFile, keyFile, httpsResult, jwe>>
    /\ UNCHANGED <<urlVars, loadVars, modVars, restVars>>

\* getHttpsConfig after the await: return config.
ReturnHttpsConfig ==
    /\ httpsPc = "validated"
    /\ httpsResult' = Resolved("config", <<crtFile, keyFile>>)
    /\ httpsPc' = "done"
    /\ UNCHANGED <<HTTPS, crtFile, keyFile, httpsConsole, jwe>>
    /\ UNCHANGED <<urlVars, loadVars, modVars, restVars>>

\* a direct call of the exported readEnvFile(SSL_CRT_FILE, 'SSL_CRT_FILE').
ReadEnvFile ==
    /\ httpsPc = "readEnvFile"
    /\ LET r == readEnvFile(crtFile)
       IN  httpsResult' = IF r.threw THEN Threw(r.error)
                          ELSE Returned("content", <<r.content>>)
    /\ httpsPc' = "done"
    /\ UNCHANGED <<HTTPS, crtFile, keyFile, httpsConsole, jwe>>
    /\ UNCHANGED <<urlVars, loadVars, modVars, restVars>>


----------------------------------------------------------------------------
(* webpack/connection/webpack.config.js and the environment configurations *)
(* webpack/config/webpack.config.{prod,dev}.mjs                            *)

ProdConfigPath == "config/webpack.config.prod.mjs"
DevConfigPath == "config/webpack.config.dev.mjs"

\* What import() finds.  A configuration module fails to import or is one
\* of its revisions: "prod"; "dev" (webpack.config.dev.mjs as committed,
\* with loadPlugins and loadRules) or "devServer" (the revision that also
\* has loadResolve and devServer.server).  A plugins/rules/resolve module
\* fails to import, has no default export, or has one.
Disks ==
    [prod    : {"fails", "prod"},
     dev     : {"fails", "dev", "devServer"},
     plugins : {"fails", "noDefault", "default"},
     rules   : {"fails", "noDefault", "default"},
     resolve : {"fails", "noDefault", "default"}]

NodeEnvValues == {"", "production", "development", "test"}

\* const env = process.env.NODE_ENV || 'development'
connectionEnv(nodeEnv) == JsOr(nodeEnv, JsString("development"))

\* mutant: production unless NODE_ENV is 'development'
selectConfigPath_unlessDevelopment(nodeEnv) ==
    IF StrictEquals(nodeEnv, JsString("development"))
    THEN DevConfigPath
    ELSE ProdConfigPath

\* const envConfigPath = env === 'production' ? <prod> : <dev>
selectConfigPath(nodeEnv) ==
    IF StrictEquals(connectionEnv(nodeEnv), JsString("production"))
    THEN ProdConfigPath
    ELSE DevConfigPath

moduleAt(d, path) == IF path = ProdConfigPath THEN d.prod ELSE d.dev

\* the error import(path) rejects with when the module cannot be loaded
importError(path) == "Cannot load " \o path

\* mutant: the catch block logs and falls back to an empty configuration
loadConfig_fallback(d, path) ==
    IF moduleAt(d, path) = "fails"
    THEN [promise |-> Resolved("object", <<"{}">>),
          log     |-> <<"Error loading configuration:">>]
    ELSE [promise |-> Resolved("function", <<moduleAt(d, path)>>),
          log     |-> <<>>]

\* loadConfig after its await: the settled promise and what was logged.
loadConfig(d, path) ==
    IF moduleAt(d, path) = "fails"
    THEN [promise |-> Rejected(importError(path)),
          log     |-> <<"Error loading configuration:">>]
    ELSE [promise |-> Resolved("function", <<moduleAt(d, path)>>),
          log     |-> <<>>]

\* mutant: the catch block logs but returns nothing
loadModule_noDefault(found, name, dflt) ==
    IF found = "fails"
    THEN [value |-> "undefined", log |-> <<"Error loading " \o name \o ":">>]
    ELSE IF found = "noDefault"
    THEN [value |-> dflt, log |-> <<>>]
    ELSE [value |-> name \o ".default", log |-> <<>>]

\* loadPlugins / loadRules / loadResolve: try { return module.default || dflt }
\* catch (err) { console.error(...); return dflt }
loadModule(found, name, dflt) ==
    IF found = "fails"
    THEN [value |-> dflt, log |-> <<"Error loading " \o name \o ":">>]
    ELSE IF found = "noDefault"
    THEN [value |-> dflt, log |-> <<>>]
    ELSE [value |-> name \o ".default", log |-> <<>>]

\* whether the revision of the configuration function awaits loadResolve()
hasLoadResolve(revision) == revision \in {"prod", "devServer"}

\* devServer.server of the returned object ("none": the key is absent)
serverType(revision, envHttps) ==
    IF revision = "devServer"
    THEN IF StrictEquals(envHttps, JsBoolean(TRUE)) THEN "https" ELSE "http"
    ELSE "none"

\* options: process.env.HTTPS === true && httpsConfig ? httpsConfig : {}
\* httpsConfig is not declared in the file: evaluating it throws.
serverOptions(revision, envHttps) ==
    IF revision = "devServer"
    THEN IF StrictEquals(envHttps, JsBoolean(TRUE)) THEN "ReferenceError" ELSE "{}"
    ELSE "none"

\* the object literal returned by the configuration function
configObject(revision, envHttps, p, r, res) ==
    [mode    |-> IF revision = "prod" THEN "production" ELSE "development",
     plugins |-> p,
     rules   |-> r,
     resolve |-> IF hasLoadResolve(revision) THEN res ELSE "{extensions}",
     server  |-> serverType(revision, envHttps)]

LoadIdle ==
    /\ NODE_ENV = JsUndefined
    /\ disk = [prod |-> "fails", dev |-> "fails", plugins |-> "fails",
               rules |-> "fails", resolve |-> "fails"]
    /\ loadPc = "off"
    /\ envConfigPath = ""
    /\ exported = Pending
    /\ plugins = "unset" /\ rules = "unset" /\ resolve = "unset"
    /\ config = Pending
    /\ loadConsole = <<>>
    /\ imported = <<>>

InitLoad ==
    /\ NODE_ENV \in EnvValues(NodeEnvValues)
    /\ disk \in Disks
    /\ loadPc = "start"
    /\ envConfigPath = ""
    /\ exported = Pending
    /\ plugins = "unset" /\ rules = "unset" /\ resolve = "unset"
    /\ config = Pending
    /\ loadConsole = <<>>
    /\ imported = <<>>

loadLocals == <<plugins, rules, resolve>>

\* connection/webpack.config.js is evaluated up to the await in loadConfig.
EvalConnection ==
    /\ loadPc = "start"
    /\ envConfigPath' = selectConfigPath(NODE_ENV)
    /\ loadPc' = "importConfig"
    /\ UNCHANGED <<NODE_ENV, disk, exported, loadLocals, config, loadConsole, imported>>
    /\ UNCHANGED <<urlVars, httpsVars, modVars, restVars>>

\* the import of the selected module settles; loadConfig returns or rethrows.
ImportConfig ==
    /\ loadPc = "importConfig"
    /\ LET r == loadConfig(disk, envConfigPath)
       IN  /\ exported' = r.promise
           /\ loadConsole' = loadConsole \o r.log
           /\ loadPc' = IF r.promise.state = "resolved" THEN "loaded" ELSE "failed"
    /\ imported' = Append(imported, envConfigPath)
    /\ UNCHANGED <<NODE_ENV, disk, envConfigPath, loadLocals, config>>
    /\ UNCHANGED <<urlVars, httpsVars, modVars, restVars>>

\* webpack calls the exported configuration function.
CallConfig ==
    /\ loadPc = "loaded"
    /\ loadPc' = "loadPlugins"
    /\ UNCHANGED <<NODE_ENV, disk, envConfigPath, exported, loadLocals, config,
                   loadConsole, imported>>
    /\ UNCHANGED <<urlVars, httpsVars, modVars, restVars>>

\* const plugins = await loadPlugins()
LoadPlugins ==
    /\ loadPc = "loadPlugins"
    /\ LET r == loadModule(disk.plugins, "plugins", "[]")
       IN  /\ plugins' = r.value
           /\ loadConsole' = loadConsole \o r.log
    /\ imported' = Append(imported, "plugins")
    /\ loadPc' = "loadRules"
    /\ UNCHANGED <<NODE_ENV, disk, envConfigPath, exported, rules, resolve, config>>
    /\ UNCHANGED <<urlVars, httpsVars, modVars, restVars>>

\* const rules = await loadRules()
LoadRules ==
    /\ loadPc = "loadRules"
    /\ LET r == loadModule(disk.rules, "rules", "[]")
       IN  /\ rules' = r.value
           /\ loadConsole' = loadConsole \o r.log
    /\ imported' = Append(imported, "rules")
    /\ loadPc' = IF hasLoadResolve(exported.value[1]) THEN "loadResolve" ELSE "return"
    /\ UNCHANGED <<NODE_ENV, disk, envConfigPath, exported, plugins, resolve, config>>
    /\ UNCHANGED <<urlVars, httpsVars, modVars, restVars>>

\* const resolve = await loadResolve()
LoadResolve ==
    /\ loadPc = "loadResolve"
    /\ LET r == loadModule(disk.resolve, "resolve", "{}")
       IN  /\ resolve' = r.value
           /\ loadConsole' = loadConsole \o r.log
    /\ imported' = Append(imported, "resolve")
    /\ loadPc' = "return"
    /\ UNCHANGED <<NODE_ENV, disk, envConfigPath, exported, plugins, rules, config>>
    /\ UNCHANGED <<urlVars, httpsVars, modVars, restVars>>

\* return { mode, entry, module: { rules }, plugins, resolve, devServer, ... }
ReturnConfig ==
    /\ loadPc = "return"
    /\ LET revision == exported.value[1]
       IN  config' = IF serverOptions(revision, HTTPS) = "ReferenceError"
                     THEN Rejected("ReferenceError: httpsConfig is not defined")
                     ELSE Resolved("config",
                            <<configObject(revision, HTTPS, plugins, rules, resolve)>>)
    /\ loadPc' = "configured"
    /\ UNCHANGED <<NODE_ENV, disk, envConfigPath, exported, loadLocals,
                   loadConsole, imported>>
    /\ UNCHANGED <<urlVars, httpsVars, modVars, restVars>>


----------------------------------------------------------------------------
(* webpack/common/modules/modules.mjs                                      *)
(* A path is a record [abs, segs]: whether it starts at the root, and its  *)
(* segments.  The empty relative path is the empty string.                 *)

Path(abs, segs) == [abs |-> abs, segs |-> segs]
NoBaseUrl == [abs |-> FALSE, segs |-> <<"undefined">>]

\* paths.mjs: resolveApp('.'), resolveApp('src'), resolveApp('node_modules')
appPath == Path(TRUE, <<"app">>)
appSrc == Path(TRUE, <<"app", "src">>)
appNodeModules == Path(TRUE, <<"app", "node_modules">>)

\* path normalisation of absolute segments: '.' dropped, '..' pops.
RECURSIVE Normalize(_, _)
Normalize(segs, acc) ==
    IF Len(segs) = 0 THEN acc
    ELSE IF Head(segs) = "." THEN Normalize(Tail(segs), acc)
    ELSE IF Head(segs) = ".."
    THEN Normalize(Tail(segs), IF Len(acc) = 0 THEN acc ELSE SubSeq(acc, 1, Len(acc) - 1))
    ELSE Normalize(Tail(segs), Append(acc, Head(segs)))

\* path.resolve(from, to), from absolute
pathResolve(from, to) ==
    IF to.abs THEN Path(TRUE, Normalize(to.segs, <<>>))
    ELSE Path(TRUE, Normalize(from.segs \o to.segs, <<>>))

\* path.relative(a, b) === '' for resolved paths
relativeIsEmpty(a, b) == a = b

\* !baseUrl: undefined or the empty string
baseUrlFalsy(b) == b = NoBaseUrl \/ (~b.abs /\ b.segs = <<>>)

BaseUrlError == "baseUrl can only be set to src or node_modules"

\* mutant: the branch for a baseUrl equal to the project root is missing
getAdditionalModulePaths_noRoot(b) ==
    IF baseUrlFalsy(b) THEN Returned("string", <<"">>)
    ELSE LET baseUrlResolved == pathResolve(appPath, b)
         IN  IF relativeIsEmpty(appNodeModules, baseUrlResolved)
             THEN Returned("null", <<>>)
             ELSE IF relativeIsEmpty(appSrc, baseUrlResolved)
             THEN Returned("array", <<appSrc>>)
             ELSE Threw(BaseUrlError)

\* getAdditionalModulePaths(options): the returned value, or the thrown error.
getAdditionalModulePaths(b) ==
    IF baseUrlFalsy(b) THEN Returned("string", <<"">>)
    ELSE LET baseUrlResolved == pathResolve(appPath, b)
         IN  IF relativeIsEmpty(appNodeModules, baseUrlResolved)
             THEN Returned("null", <<>>)
             ELSE IF relativeIsEmpty(appSrc, baseUrlResolved)
             THEN Returned("array", <<appSrc>>)
             ELSE IF relativeIsEmpty(appPath, baseUrlResolved)
             THEN Returned("null", <<>>)
             ELSE Threw(BaseUrlError)

\* getWebpackAliases(options): {} , { src: paths.appSrc } or undefined.
getWebpackAliases(b) ==
    IF baseUrlFalsy(b) THEN Returned("object", <<>>)
    ELSE IF relativeIsEmpty(appPath, pathResolve(appPath, b))
    THEN Returned("object", << <<"src", appSrc>> >>)
    ELSE Returned("undefined", <<>>)

BothConfigsError == "You have both a tsconfig.json and a jsconfig.json."
TypeScriptError == "TypeScript could not be loaded."

\* mutant: the check for both files is missing
modulesStart_noCheck(hasTsConfig, hasJsConfig) ==
    IF hasTsConfig THEN "loadTypeScript"
    ELSE IF hasJsConfig THEN "importJsConfig"
    ELSE "options"

\* modules() from its start to its first await, throw or to the final part.
modulesStart(hasTsConfig, hasJsConfig) ==
    IF hasTsConfig /\ hasJsConfig THEN "throwBoth"
    ELSE IF hasTsConfig THEN "loadTypeScript"
    ELSE IF hasJsConfig THEN "importJsConfig"
    ELSE "options"

\* the end of modules(): options, getAdditionalModulePaths, the result.
modulesEnd(b, hasTsConfig) ==
    LET additional == getAdditionalModulePaths(b)
    IN  IF additional.state = "threw"
        THEN Rejected(additional.value[1])
        ELSE Resolved("modules",
               <<[additionalModulePaths |-> additional,
                  webpackAliases        |-> getWebpackAliases(b),
                  hasTsConfig           |-> hasTsConfig]>>)

PathSegments == {".", "..", "src", "node_modules", "app"}
MaxBaseUrlLen == 2
BaseUrls ==
    {NoBaseUrl} \cup
    { Path(abs, segs) : abs \in BOOLEAN,
                        segs \in UNION { [1..k -> PathSegments] : k \in 0..MaxBaseUrlLen } }

ModIdle ==
    /\ tsConfig = FALSE
    /\ jsConfig = FALSE
    /\ baseUrl = NoBaseUrl
    /\ tsInstalled = FALSE
    /\ jsImportable = FALSE
    /\ modPc = "off"
    /\ modResult = Pending
    /\ modTrace = <<>>

InitModules ==
    /\ tsConfig \in BOOLEAN
    /\ jsConfig \in BOOLEAN
    /\ baseUrl \in (IF tsConfig \/ jsConfig THEN BaseUrls ELSE {NoBaseUrl})
    /\ tsInstalled \in BOOLEAN
    /\ jsImportable \in BOOLEAN
    /\ modPc = "start"
    /\ modResult = Pending
    /\ modTrace = <<>>

modInputs == <<tsConfig, jsConfig, baseUrl, tsInstalled, jsImportable>>

\* modules(): the two existsSync calls and the check for both files.
ModulesStart ==
    /\ modPc = "start"
    /\ LET next == modulesStart(tsConfig, jsConfig)
       IN  /\ modPc' = IF next = "throwBoth" THEN "done" ELSE next
           /\ modResult' = IF next = "throwBoth" THEN Rejected(BothConfigsError)
                           ELSE modResult
    /\ modTrace' = modTrace \o <<"existsSync tsconfig.json", "existsSync jsconfig.json">>
    /\ UNCHANGED modInputs
    /\ UNCHANGED <<urlVars, httpsVars, loadVars, restVars>>

\* const ts = await loadTypeScript()
LoadTypeScript ==
    /\ modPc = "loadTypeScript"
    /\ modTrace' = Append(modTrace, "import typescript")
    /\ IF tsInstalled
       THEN modPc' = "readConfigFile" /\ UNCHANGED modResult
       ELSE modPc' = "done" /\ modResult' = Rejected(TypeScriptError)
    /\ UNCHANGED modInputs
    /\ UNCHANGED <<urlVars, httpsVars, loadVars, restVars>>

\* config = ts.readConfigFile(paths.appTsConfig, ts.sys.readFile).config
ReadConfigFile ==
    /\ modPc = "readConfigFile"
    /\ modTrace' = Append(modTrace, "read tsconfig.json")
    /\ modPc' = "options"
    /\ UNCHANGED <<modInputs, modResult>>
    /\ UNCHANGED <<urlVars, httpsVars, loadVars, restVars>>

\* config = (await import(paths.appJsConfig)).default
ImportJsConfig ==
    /\ modPc = "importJsConfig"
    /\ modTrace' = Append(modTrace, "read jsconfig.json")
    /\ IF jsImportable
       THEN modPc' = "options" /\ UNCHANGED modResult
       ELSE modPc' = "done" /\ modResult' = Rejected(importError("jsconfig.json"))
    /\ UNCHANGED modInputs
    /\ UNCHANGED <<urlVars, httpsVars, loadVars, restVars>>

\* the rest of modules(): compilerOptions, both helpers, the return.
ModulesEnd ==
    /\ modPc = "options"
    /\ modResult' = modulesEnd(baseUrl, tsConfig)
    /\ modPc' = "done"
    /\ UNCHANGED <<modInputs, modTrace>>
    /\ UNCHANGED <<urlVars, httpsVars, loadVars, restVars>>


----------------------------------------------------------------------------
(* webpack.helpers.mjs (createWebpackAliases), webpack.aliases.mjs         *)

\* A JavaScript object: its own properties (a function from names to
\* values), the own names that are not enumerable, and the enumerable
\* properties it inherits through its prototype chain.
Object(own, hidden, inherited) == [own |-> own, hidden |-> hidden, inherited |-> inherited]
NoProperties == [k \in {} |-> ""]
\* {}
EmptyObject == Object(NoProperties, {}, NoProperties)
JsObject(obj) == [type |-> "object", val |-> obj]

\* for (const name in obj): the enumerable names, own and inherited; an own
\* property shadows the inherited one of the same name.
forIn(obj) ==
    { k \in DOMAIN obj.own : k \notin obj.hidden }
        \cup { k \in DOMAIN obj.inherited : k \notin DOMAIN obj.own }

\* Object.prototype.hasOwnProperty.call(obj, name)
hasOwnProperty(obj, name) == name \in DOMAIN obj.own

\* obj[name]
Get(obj, name) ==
    IF name \in DOMAIN obj.own THEN obj.own[name] ELSE obj.inherited[name]

\* obj[name] = value on an object made by {}, value a string.  The name
\* __proto__ reaches the accessor of Object.prototype, whose setter ignores
\* a value that is neither an object nor null: no property is created.
Put(obj, name, value) ==
    IF name = "__proto__" THEN obj
    ELSE [obj EXCEPT !.own = (name :> value) @@ obj.own]

\* the loop of createWebpackAliases over the names still to visit
RECURSIVE copyOwn(_, _, _)
copyOwn(obj, names, result) ==
    IF names = {} THEN result
    ELSE LET name == CHOOSE n \in names : TRUE
         IN  copyOwn(obj, names \ {name},
                     IF hasOwnProperty(obj, name)
                     THEN Put(result, name, Get(obj, name))
                     ELSE result)

\* createWebpackAliases(aliases): the object it returns
createWebpackAliases(obj) == copyOwn(obj, forIn(obj), EmptyObject)

\* a module export or a call that has not been evaluated yet
Unevaluated == [state |-> "unevaluated", kind |-> "none", value |-> <<>>]

\* webpack.aliases.mjs: __dirname and path.resolve(__dirname, '..', '..', '..', dir)
aliasesDirname == Path(TRUE, <<"app", "webpack", "common", "routes">>)
fromDirname(dir) == pathResolve(aliasesDirname, Path(FALSE, <<"..", "..", "..">> \o dir))

\* the fifteen properties written out in the object literal
staticAliases ==
    ("@src" :> fromDirname(<<"src">>))
    @@ ("@assets" :> fromDirname(<<"src", "assets">>))
    @@ ("@types" :> fromDirname(<<"src", "types">>))
    @@ ("@components" :> fromDirname(<<"src", "components">>))
    @@ ("@hooks" :> fromDirname(<<"src", "hooks">>))
    @@ ("@interface" :> fromDirname(<<"src", "interface">>))
    @@ ("@layout" :> fromDirname(<<"src", "layout">>))
    @@ ("@pages" :> fromDirname(<<"src", "pages">>))
    @@ ("@global" :> fromDirname(<<"src", "global">>))
    @@ ("@routes" :> fromDirname(<<"src", "routes">>))
    @@ ("@sections" :> fromDirname(<<"src", "sections">>))
    @@ ("@services" :> fromDirname(<<"src", "services">>))
    @@ ("@store" :> fromDirname(<<"src", "store">>))
    @@ ("@styles" :> fromDirname(<<"src", "styles">>))
    @@ ("@utils" :> fromDirname(<<"src", "utils">>))

\* import modules from '../modules/modules.mjs': the default export of
\* modules.mjs is the async function modules itself, which this module
\* never calls; a function object has the properties it was given.
modulesImport == [type |-> "function", val |-> Object(NoProperties, {}, NoProperties)]

\* v.name
GetProperty(v, name) ==
    IF name \in DOMAIN v.val.own THEN v.val.own[name] ELSE JsUndefined

\* { ...target, ...source }: the own enumerable properties of source are
\* defined on the literal, the later one winning.
spread(target, source) ==
    [target EXCEPT !.own =
        [k \in { n \in DOMAIN source.own : n \notin source.hidden } |-> source.own[k]]
            @@ target.own]

\* the object literal handed to createWebpackAliases
aliasesLiteral ==
    spread(Object(staticAliases, {}, NoProperties),
           JsOr(GetProperty(modulesImport, "webpackAliases"), JsObject(EmptyObject)).val)

\* the arguments tried: the names '@src', 'src' and '__proto__', each absent
\* or an own property (enumerable or not) holding one of two paths, over a
\* prototype that contributes enumerable properties
AliasNames == {"@src", "src", "__proto__"}
AliasPaths == {appSrc, fromDirname(<<"src", "assets">>)}
InheritedNames == {"@src", "inherited"}
AliasObjects ==
    { Object(own, hidden, inherited) :
        own \in UNION { [S -> AliasPaths] : S \in SUBSET AliasNames },
        hidden \in SUBSET AliasNames,
        inherited \in UNION { [S -> {appPath}] : S \in SUBSET InheritedNames } }

AliasIdle ==
    /\ aliases = EmptyObject
    /\ aliasPc = "off"
    /\ aliasResult = Unevaluated
    /\ aliasAgain = Unevaluated
    /\ webpackAliases = Unevaluated


InitAliases ==
    /\ aliases \in { o \in AliasObjects : o.hidden \subseteq DOMAIN o.own }
    /\ aliasPc = "start"
    /\ aliasResult = Unevaluated
    /\ aliasAgain = Unevaluated
    /\ webpackAliases = Unevaluated

\* createWebpackAliases(aliases)
CreateWebpackAliases ==
    /\ aliasPc = "start"
    /\ aliasResult' = Returned("object", <<createWebpackAliases(aliases)>>)
    /\ aliasPc' = "created"
    /\ UNCHANGED <<aliases, aliasAgain, webpackAliases>>
    /\ UNCHANGED <<urlVars, httpsVars, loadVars, modVars, resolveVars, mergeVars, styleVars,
                   commitVars>>

\* createWebpackAliases applied to the object it returned
CreateAgain ==
    /\ aliasPc = "created"
    /\ aliasAgain' = Returned("object", <<createWebpackAliases(aliasResult.value[1])>>)
    /\ aliasPc' = "again"
    /\ UNCHANGED <<aliases, aliasResult, webpackAliases>>
    /\ UNCHANGED <<urlVars, httpsVars, loadVars, modVars, resolveVars, mergeVars, styleVars,
                   commitVars>>

\* evaluation of webpack.aliases.mjs, whenever something imports it
EvalAliases ==
    /\ webpackAliases = Unevaluated
    /\ webpackAliases' = Returned("object", <<createWebpackAliases(aliasesLiteral)>>)
    /\ UNCHANGED <<aliases, aliasPc, aliasResult, aliasAgain>>
    /\ UNCHANGED <<urlVars, httpsVars, loadVars, modVars, resolveVars, mergeVars, styleVars,
                   commitVars>>


----------------------------------------------------------------------------
(* resolveModule (utils.mjs), as paths.mjs calls it for appIndexJs         *)

\* mutant: index.js is preferred to index.web.js
moduleFileExtensions_jsFirst ==
    <<"web.mjs", "mjs", "js", "web.js", "web.ts", "ts", "web.tsx", "tsx", "json">>

moduleFileExtensions ==
    <<"web.mjs", "mjs", "web.js", "js", "web.ts", "ts", "web.tsx", "tsx", "json">>

\* the template string filePath.extension, kept in its three parts
withExtension(path, extension) == <<path, ".", extension>>

\* resolveApp(relativePath): path.resolve(appDirectory, relativePath)
resolveApp(relativePath) == <<"app", "/">> \o relativePath

\* fs.existsSync(path) on the files of the project
fsExistsSync(fsFiles, path) == path \in fsFiles

\* moduleFileExtensions.find(...): the first element from index i on whose
\* file exists, undefined when there is none
RECURSIVE findExtension(_, _, _)
findExtension(fsFiles, path, i) ==
    IF i > Len(moduleFileExtensions) THEN JsUndefined
    ELSE IF fsExistsSync(fsFiles, resolveApp(withExtension(path, moduleFileExtensions[i])))
    THEN JsString(moduleFileExtensions[i])
    ELSE findExtension(fsFiles, path, i + 1)

\* resolveModule(resolveApp, filePath)
resolveModule(fsFiles, path) ==
    LET extension == findExtension(fsFiles, path, 1)
    IN  IF JsTruthy(extension)
        THEN resolveApp(withExtension(path, extension.val))
        ELSE resolveApp(withExtension(path, "js"))

\* the projects tried: any set of the nine candidate files of src/index,
\* with or without a src/main.js next to them
FilePaths == {"src/index", "src/main"}
CandidateFiles ==
    { resolveApp(withExtension("src/index", moduleFileExtensions[i])) :
        i \in 1..Len(moduleFileExtensions) }
        \cup { resolveApp(withExtension("src/main", "js")) }

ResolveIdle ==
    /\ files = {}
    /\ filePath = "src/index"
    /\ resolvePc = "off"
    /\ resolved = <<>>


InitResolve ==
    /\ files \in SUBSET CandidateFiles
    /\ filePath \in FilePaths
    /\ resolvePc = "start"
    /\ resolved = <<>>

\* resolveModule(resolveApp, filePath); paths.mjs calls it with 'src/index'
ResolveModule ==
    /\ resolvePc = "start"
    /\ resolved' = resolveModule(files, filePath)
    /\ resolvePc' = "resolved"
    /\ UNCHANGED <<files, filePath>>
    /\ UNCHANGED <<urlVars, httpsVars, loadVars, modVars, aliasVars, mergeVars, styleVars,
                   commitVars>>


----------------------------------------------------------------------------
(* config/webpack.config.js: merge of webpack.common.js with the           *)
(* environment file                                                        *)

\* values of a configuration: strings and booleans as above, arrays and
\* plain objects (functions from keys to values)
JsArray(items) == [type |-> "array", val |-> items]
JsNumber(n) == [type |-> "number", val |-> n]

\* const environment = process.env.NODE_ENV || 'development'
environment(nodeEnv) == JsOr(nodeEnv, JsString("development"))

\* webpack.common.js: the exported object, by its top-level kinds of value
commonConfig(nodeEnv) ==
    ("entry" :> JsString("src/index.tsx"))
    @@ ("plugins" :> JsArray(<<"HtmlWebpackPlugin">>))
    @@ ("devServer" :>
          JsObject("static" :> JsObject(("directory" :> JsString("dist"))
                                        @@ ("watch" :> JsBoolean(TRUE)))))
    @@ ("mode" :> environment(nodeEnv))

\* webpack.dev.js
devConfig ==
    ("mode" :> JsString("development"))
    @@ ("devServer" :>
          JsObject(("hot" :> JsBoolean(TRUE)) @@ ("open" :> JsBoolean(TRUE))
                   @@ ("port" :> JsNumber(5114))))
    @@ ("plugins" :> JsArray(<<"DefinePlugin development">>))

\* webpack.prod.js
prodConfig ==
    ("mode" :> JsString("production"))
    @@ ("devtool" :> JsBoolean(FALSE))
    @@ ("plugins" :> JsArray(<<"DefinePlugin production">>))
    @@ ("optimization" :>
          JsObject(("minimize" :> JsBoolean(TRUE))
                   @@ ("minimizer" :> JsArray(<<"TerserPlugin">>))))

\* mutant: a key that both configurations set keeps the value of the first
merge_firstWins(a, b) == a @@ b

\* merge(a, b) of webpack-merge: arrays are concatenated, plain objects are
\* merged key by key, and for anything else the later value replaces the
\* earlier one.
RECURSIVE merge(_, _)
merge(a, b) ==
    [k \in DOMAIN a \cup DOMAIN b |->
        IF k \notin DOMAIN b THEN a[k]
        ELSE IF k \notin DOMAIN a THEN b[k]
        ELSE IF a[k].type = "array" /\ b[k].type = "array"
        THEN JsArray(a[k].val \o b[k].val)
        ELSE IF a[k].type = "object" /\ b[k].type = "object"
        THEN JsObject(merge(a[k].val, b[k].val))
        ELSE b[k]]

\* env.production ? webpack.prod.js : webpack.dev.js
selectEnvConfig(production) == IF JsTruthy(production) THEN prodConfig ELSE devConfig

\* what webpack hands over as env.production, and the NODE_ENV values tried
EnvProductionValues ==
    {JsUndefined, JsBoolean(TRUE), JsBoolean(FALSE), JsString("true"),
     JsString("false"), JsString("")}
CfgNodeEnvValues ==
    EnvValues({"", "production", "development", "test", "none", "staging"})

NoConfig == NoProperties

MergeIdle ==
    /\ cfgNodeEnv = JsUndefined
    /\ envProduction = JsUndefined
    /\ mergePc = "off"
    /\ commonExport = NoConfig
    /\ envConfig = NoConfig
    /\ merged = NoConfig


InitMerge ==
    /\ cfgNodeEnv \in CfgNodeEnvValues
    /\ envProduction \in EnvProductionValues
    /\ mergePc = "start"
    /\ commonExport = NoConfig
    /\ envConfig = NoConfig
    /\ merged = NoConfig

\* import commonConfig from "./webpack.common.js": the module is evaluated
EvalCommon ==
    /\ mergePc = "start"
    /\ commonExport' = commonConfig(cfgNodeEnv)
    /\ mergePc' = "called"
    /\ UNCHANGED <<cfgNodeEnv, envProduction, envConfig, merged>>
    /\ UNCHANGED <<urlVars, httpsVars, loadVars, modVars, aliasVars, resolveVars, styleVars,
                   commitVars>>

\* const envConfig = env.production ? (await import(...)).default : ...
ImportEnvConfig ==
    /\ mergePc = "called"
    /\ envConfig' = selectEnvConfig(envProduction)
    /\ mergePc' = "imported"
    /\ UNCHANGED <<cfgNodeEnv, envProduction, commonExport, merged>>
    /\ UNCHANGED <<urlVars, httpsVars, loadVars, modVars, aliasVars, resolveVars, styleVars,
                   commitVars>>

\* return merge(commonConfig, envConfig)
ReturnMerged ==
    /\ mergePc = "imported"
    /\ merged' = merge(commonExport, envConfig)
    /\ mergePc' = "returned"
    /\ UNCHANGED <<cfgNodeEnv, envProduction, commonExport, envConfig>>
    /\ UNCHANGED <<urlVars, httpsVars, loadVars, modVars, aliasVars, resolveVars, styleVars,
                   commitVars>>


----------------------------------------------------------------------------
(* webpack.rules.mjs: getStyleLoaders and the three style rules            *)

\* webpack.helpers.mjs: process.env.NODE_ENV === "development"
inDev(nodeEnv) == StrictEquals(nodeEnv, JsString("development"))

\* mutant: source maps are wanted whatever GENERATE_SOURCEMAP says
shouldUseSourceMap_always(generate) == TRUE

\* process.env.GENERATE_SOURCEMAP !== 'false'
shouldUseSourceMap(generate) == ~StrictEquals(generate, JsString("false"))

\* one entry of a use list: the loader and its options object
Loader(name, options) == [loader |-> name, options |-> options]

\* the options object handed to css-loader by the three rules
cssOptions(importLoaders, mode, generate) ==
    ("importLoaders" :> JsNumber(importLoaders))
    @@ ("sourceMap" :> JsBoolean(shouldUseSourceMap(generate)))
    @@ ("modules" :> JsObject("mode" :> JsString(mode)))

\* the array literal of getStyleLoaders after .filter(Boolean)
baseLoaders(options, nodeEnv, generate, publicUrl) ==
    (IF inDev(nodeEnv)
     THEN << Loader("style-loader", NoProperties) >>
     ELSE << Loader("MiniCssExtractPlugin.loader",
                    IF startsWith(publicUrl, ".")
                    THEN ("publicPath" :> JsString("../../"))
                    ELSE NoProperties) >>)
    \o << Loader("css-loader", options),
          Loader("postcss-loader",
                 ("postcssOptions" :> JsObject("ident" :> JsString("postcss")))
                 @@ ("sourceMap" :>
                       JsBoolean(~inDev(nodeEnv) /\ shouldUseSourceMap(generate)))) >>

\* getStyleLoaders(cssOptions, preProcessor); preProcessor is a loader name
\* or undefined
getStyleLoaders(options, preProcessor, nodeEnv, generate, publicUrl) ==
    LET loaders == baseLoaders(options, nodeEnv, generate, publicUrl)
    IN  IF JsTruthy(preProcessor)
        THEN loaders \o
             << Loader("resolve-url-loader",
                       ("sourceMap" :>
                          JsBoolean(~inDev(nodeEnv) /\ shouldUseSourceMap(generate)))
                       @@ ("root" :> JsString("appSrc"))),
                Loader(preProcessor.val, ("sourceMap" :> JsBoolean(TRUE))) >>
        ELSE loaders

StyleNodeEnvValues == EnvValues({"", "production", "development", "test"})
GenerateSourcemapValues == EnvValues({"", "false", "true", "FALSE"})
PublicUrlValues == { <<"/">>, <<".", "/">>, <<"/", "a", "/">> }

StyleIdle ==
    /\ styleNodeEnv = JsUndefined
    /\ GENERATE_SOURCEMAP = JsUndefined
    /\ publicUrlOrPath = <<"/">>
    /\ stylePc = "off"
    /\ cssRule = <<>>
    /\ cssModuleRule = <<>>
    /\ sassRule = <<>>

InitStyle ==
    /\ styleNodeEnv \in StyleNodeEnvValues
    /\ GENERATE_SOURCEMAP \in GenerateSourcemapValues
    /\ publicUrlOrPath \in PublicUrlValues
    /\ stylePc = "start"
    /\ cssRule = <<>>
    /\ cssModuleRule = <<>>
    /\ sassRule = <<>>

styleInputs == <<styleNodeEnv, GENERATE_SOURCEMAP, publicUrlOrPath>>

\* const cssRule = { ..., use: getStyleLoaders({...}) }
BuildCssRule ==
    /\ stylePc = "start"
    /\ cssRule' = getStyleLoaders(cssOptions(1, "icss", GENERATE_SOURCEMAP), JsUndefined,
                                  styleNodeEnv, GENERATE_SOURCEMAP, publicUrlOrPath)
    /\ stylePc' = "css"
    /\ UNCHANGED <<styleInputs, cssModuleRule, sassRule>>
    /\ UNCHANGED <<urlVars, httpsVars, loadVars, modVars, aliasVars, resolveVars, mergeVars,
                   commitVars>>

\* const cssModuleRule = { ..., use: getStyleLoaders({...}) }
BuildCssModuleRule ==
    /\ stylePc = "css"
    /\ cssModuleRule' = getStyleLoaders(cssOptions(1, "local", GENERATE_SOURCEMAP),
                                        JsUndefined, styleNodeEnv, GENERATE_SOURCEMAP,
                                        publicUrlOrPath)
    /\ stylePc' = "cssModule"
    /\ UNCHANGED <<styleInputs, cssRule, sassRule>>
    /\ UNCHANGED <<urlVars, httpsVars, loadVars, modVars, aliasVars, resolveVars, mergeVars,
                   commitVars>>

\* const sassRule = { ..., use: getStyleLoaders({...}, 'sass-loader') }
BuildSassRule ==
    /\ stylePc = "cssModule"
    /\ sassRule' = getStyleLoaders(cssOptions(3, "icss", GENERATE_SOURCEMAP),
                                   JsString("sass-loader"), styleNodeEnv,
                                   GENERATE_SOURCEMAP, publicUrlOrPath)
    /\ stylePc' = "sass"
    /\ UNCHANGED <<styleInputs, cssRule, cssModuleRule>>
    /\ UNCHANGED <<urlVars, httpsVars, loadVars, modVars, aliasVars, resolveVars, mergeVars,
                   commitVars>>


----------------------------------------------------------------------------
(* commitlint.config.ts: the type-enum and scope-enum rules, the prompt    *)

\* rules["type-enum"][2]
typeEnum ==
    <<"build", "change", "chore", "ci", "deprecate", "docs", "feat", "fix", "perf",
      "refactor", "remove", "revert", "security", "style", "test", "init">>

\* rules["scope-enum"][2]
scopeEnum ==
    <<"html", "css", "scss", "markdown", "moduleJavascript", "moduleECMAScript",
      "javascript", "javascriptreact", "typescript", "typescriptreact", "json">>

\* prompt.questions.type.enum: each key with its title
promptTypeEnum ==
    [build |-> "Builds", change |-> "Functionality Enhancement", chore |-> "Chores",
     ci |-> "Continuous Integrations", deprecate |-> "Deprecation Notice",
     docs |-> "Documentation", feat |-> "Features", fix |-> "Bug Fixes",
     perf |-> "Performance Improvements", refactor |-> "Code Refactoring",
     remove |-> "Code Removal", revert |-> "Reverts",
     security |-> "Security Enhancement", style |-> "Styles", test |-> "Tests"]

\* an enum rule with the condition "always": an empty value passes, any
\* other value has to be an element of the list, letter for letter
enumRule(value, list) == value = "" \/ \E i \in 1..Len(list) : list[i] = value

\* the rules of this file that a header with this type and scope breaks
lint(type, scope) ==
    (IF enumRule(type, typeEnum) THEN {} ELSE {"type-enum"})
        \cup (IF enumRule(scope, scopeEnum) THEN {} ELSE {"scope-enum"})

\* the headers tried: every listed type and scope, and some that no list has
TypesByHand ==
    { typeEnum[i] : i \in 1..Len(typeEnum) } \cup {"", "wip", "Feat", "feature"}
Scopes == { scopeEnum[i] : i \in 1..Len(scopeEnum) } \cup {"", "api"}

CommitIdle ==
    /\ commitType = ""
    /\ commitScope = ""
    /\ commitVia = "none"
    /\ commitPc = "off"
    /\ lintErrors = {}

RestIdle == AliasIdle /\ ResolveIdle /\ MergeIdle /\ StyleIdle /\ CommitIdle

InitCommit ==
    /\ commitType = ""
    /\ commitScope = ""
    /\ commitVia = "none"
    /\ commitPc = "start"
    /\ lintErrors = {}

\* the prompt asks for the type, offering the keys of its enum, then for
\* the scope
PromptCommit ==
    /\ commitPc = "start"
    /\ \E type \in DOMAIN promptTypeEnum, scope \in Scopes :
         /\ commitType' = type
         /\ commitScope' = scope
    /\ commitVia' = "prompt"
    /\ commitPc' = "written"
    /\ UNCHANGED lintErrors
    /\ UNCHANGED <<urlVars, httpsVars, loadVars, modVars, aliasVars, resolveVars, mergeVars,
                   styleVars>>

\* the header is written without the prompt
HandCommit ==
    /\ commitPc = "start"
    /\ \E type \in TypesByHand, scope \in Scopes :
         /\ commitType' = type
         /\ commitScope' = scope
    /\ commitVia' = "hand"
    /\ commitPc' = "written"
    /\ UNCHANGED lintErrors
    /\ UNCHANGED <<urlVars, httpsVars, loadVars, modVars, aliasVars, resolveVars, mergeVars,
                   styleVars>>

\* commitlint checks the header against the rules
Lint ==
    /\ commitPc = "written"
    /\ lintErrors' = lint(commitType, commitScope)
    /\ commitPc' = "linted"
    /\ UNCHANGED <<commitType, commitScope, commitVia>>
    /\ UNCHANGED <<urlVars, httpsVars, loadVars, modVars, aliasVars, resolveVars, mergeVars,
                   styleVars>>


----------------------------------------------------------------------------
(* Specifications: one per module under study; the variables of the other  *)
(* modules stay idle.                                                      *)

\* utils.mjs, then webpack.plugins.mjs
NextUrl == EvalUtils \/ EvalPlugins
UrlStart == InitUrl /\ HttpsIdle /\ LoadIdle /\ ModIdle /\ RestIdle
SpecUrl == UrlStart /\ [][NextUrl]_vars

\* httpsConfig.mjs
NextHttps == GetHttpsConfig \/ ValidateCert \/ ValidateKey \/ ReturnHttpsConfig
             \/ ReadEnvFile
HttpsStart == InitHttps /\ UrlIdle /\ LoadIdle /\ ModIdle /\ RestIdle
SpecHttps == HttpsStart /\ [][NextHttps]_vars

\* the connection loader, then the configuration function it exports
LoadStart ==
    /\ InitLoad
    /\ UrlIdle
    /\ ModIdle
    /\ RestIdle
    /\ HTTPS \in EnvValues(HttpsValues)
    /\ crtFile = Missing /\ keyFile = Missing
    /\ httpsPc = "off" /\ httpsResult = Pending /\ httpsConsole = <<>>
    /\ jwe = "undefined"
NextLoad == EvalConnection \/ ImportConfig \/ CallConfig \/ LoadPlugins
            \/ LoadRules \/ LoadResolve \/ ReturnConfig
SpecLoad == LoadStart /\ [][NextLoad]_vars

\* modules.mjs
NextModules == ModulesStart \/ LoadTypeScript \/ ReadConfigFile
               \/ ImportJsConfig \/ ModulesEnd \/ EvalAliases
ModulesInit == InitModules /\ UrlIdle /\ HttpsIdle /\ LoadIdle /\ RestIdle
SpecModules == ModulesInit /\ [][NextModules]_vars

\* webpack.helpers.mjs and webpack.aliases.mjs
NextAliases == CreateWebpackAliases \/ CreateAgain \/ EvalAliases
AliasesStart == InitAliases /\ UrlIdle /\ HttpsIdle /\ LoadIdle /\ ModIdle /\ ResolveIdle
                /\ MergeIdle /\ StyleIdle /\ CommitIdle
SpecAliases == AliasesStart /\ [][NextAliases]_vars

\* resolveModule
NextResolve == ResolveModule
ResolveStart == InitResolve /\ UrlIdle /\ HttpsIdle /\ LoadIdle /\ ModIdle /\ AliasIdle
                /\ MergeIdle /\ StyleIdle /\ CommitIdle
SpecResolve == ResolveStart /\ [][NextResolve]_vars

\* config/webpack.config.js
NextMerge == EvalCommon \/ ImportEnvConfig \/ ReturnMerged
MergeStart == InitMerge /\ UrlIdle /\ HttpsIdle /\ LoadIdle /\ ModIdle /\ AliasIdle
              /\ ResolveIdle /\ StyleIdle /\ CommitIdle
SpecMerge == MergeStart /\ [][NextMerge]_vars

\* webpack.rules.mjs, the style rules
NextStyle == BuildCssRule \/ BuildCssModuleRule \/ BuildSassRule
StyleStart == InitStyle /\ UrlIdle /\ HttpsIdle /\ LoadIdle /\ ModIdle /\ AliasIdle
              /\ ResolveIdle /\ MergeIdle /\ CommitIdle
SpecStyle == StyleStart /\ [][NextStyle]_vars

\* commitlint.config.ts
NextCommit == PromptCommit \/ HandCommit \/ Lint
CommitStart == InitCommit /\ UrlIdle /\ HttpsIdle /\ LoadIdle /\ ModIdle /\ AliasIdle
               /\ ResolveIdle /\ MergeIdle /\ StyleIdle
SpecCommit == CommitStart /\ [][NextCommit]_vars


----------------------------------------------------------------------------
(* Properties of getPublicUrlOrPath (SpecUrl)                              *)

urlReturned == urlPc \in {"exported", "plugins"}

\* C1: for every isEnvDevelopment, homepage and envPublicUrl the value
\* returned by getPublicUrlOrPath ends with '/', so the slice(0, -1) of
\* webpack.plugins.mjs removes exactly a trailing slash and nothing else.
C1_EndsWithSlash ==
    /\ urlReturned => endsWith(urlResult, "/")
    /\ urlPc = "plugins" => clientEnvArg \o <<"/">> = urlResult

\* C2: in development getPublicUrlOrPath always returns an absolute path,
\* a string starting with '/': '/' when the chosen value starts with '.',
\* otherwise the pathname of that value.
C2_DevAbsolutePath ==
    (urlReturned /\ isEnvDevelopment) => startsWith(urlResult, "/")

----------------------------------------------------------------------------
(* Properties of httpsConfig.mjs (SpecHttps)                               *)

\* getHttpsConfig has settled its promise
httpsSettled == httpsPc = "done" /\ httpsResult.state \in {"resolved", "rejected"}

\* C3: when HTTPS is set to true and the certificate file or the key file
\* is missing, getHttpsConfig fails with the thrown readEnvFile error
\* instead of returning a value.
C3_MissingFileThrows ==
    (/\ httpsSettled
     /\ HTTPS = JsString("true")
     /\ (~crtFile.exists \/ ~keyFile.exists))
    => httpsResult = Rejected(NotFoundError)

\* C4: when the certificate is not valid PEM or the pair cannot encrypt and
\* decrypt the test message, validateKeyAndCerts throws, so getHttpsConfig
\* returns no {cert, key} configuration for a malformed pair.
C4_MalformedPairRejected ==
    (httpsSettled /\ httpsResult.kind = "config")
    => (crtFile.pem /\ crtFile.imports /\ keyFile.imports /\ keyFile.pairs)

\* C5: a {cert, key} configuration is returned only when HTTPS is enabled;
\* with HTTPS unset or not true the result is no certificate configuration,
\* even if both files exist.
C5_ConfigOnlyWhenHttps ==
    (httpsSettled /\ httpsResult.kind = "config") => HTTPS = JsString("true")

----------------------------------------------------------------------------
(* Properties of the connection loader and the configurations (SpecLoad)   *)

configured == loadPc = "configured"

\* C6: in the development configuration devServer.server.type is 'https'
\* when HTTPS is the string "true" and 'http' otherwise.
C6_ServerTypeFollowsHttps ==
    (configured /\ config.state = "resolved" /\ config.value[1].server # "none")
    => config.value[1].server = (IF HTTPS = JsString("true") THEN "https" ELSE "http")

\* the dynamic imports of a revision of the configuration function, in order
dynamicImports(revision) ==
    IF revision \in {"prod", "devServer"} THEN <<"plugins", "rules", "resolve">>
    ELSE <<"plugins", "rules">>

emptyDefault(name) == IF name = "resolve" THEN "{}" ELSE "[]"

logCount(log, entry) == Cardinality({ k \in 1..Len(log) : log[k] = entry })

C8_ProductionIffNodeEnv ==
    loadPc # "start" =>
        /\ envConfigPath = (IF NODE_ENV = JsString("production")
                            THEN ProdConfigPath ELSE DevConfigPath)
        /\ Len(imported) >= 1 => imported[1] = envConfigPath

C8_Witness ==
    /\ NODE_ENV \in {JsUndefined, JsString("")}
    /\ Len(imported) >= 1
    /\ imported[1] = DevConfigPath

\* C9: when the environment configuration module cannot be imported,
\* loadConfig logs the error exactly once and the exported promise rejects
\* with that same error; no fallback or empty configuration is produced.
C9_ImportFailureRejects ==
    LET path  == IF NODE_ENV = JsString("production") THEN ProdConfigPath
                 ELSE DevConfigPath
        found == IF NODE_ENV = JsString("production") THEN disk.prod ELSE disk.dev
    IN  (loadPc \notin {"start", "importConfig"} /\ found = "fails") =>
            /\ exported.state = "rejected"
            /\ exported.value = <<importError(path)>>
            /\ loadConsole = <<"Error loading configuration:">>
            /\ config = Pending

C9_Witness ==
    /\ loadPc = "failed"
    /\ NODE_ENV = JsString("production")
    /\ disk.prod = "fails"
    /\ exported.state = "rejected"

----------------------------------------------------------------------------
(* Properties of modules() (SpecModules)                                   *)

\* C10: modules() throws when both tsconfig.json and jsconfig.json exist,
\* before TypeScript is loaded and before either file is read.
C10_BothConfigsThrow ==
    (modPc # "start" /\ tsConfig /\ jsConfig) =>
        /\ modResult = Rejected(BothConfigsError)
        /\ \A k \in 1..Len(modTrace) :
             modTrace[k] \notin {"import typescript", "read tsconfig.json",
                                 "read jsconfig.json"}

C10_Witness ==
    /\ modPc = "done"
    /\ tsConfig /\ jsConfig
    /\ modResult.state = "rejected"
    /\ Len(modTrace) = 2


\* modules() got as far as getAdditionalModulePaths(options)
reachedOptions ==
    modPc = "done" /\ (modResult.state = "resolved" \/ modResult = Rejected(BaseUrlError))

\* the directory a non-empty baseUrl names, from the project root /app
baseUrlDirectory == Normalize(IF baseUrl.abs THEN baseUrl.segs ELSE <<"app">> \o baseUrl.segs, <<>>)

----------------------------------------------------------------------------
(* Properties of webpack.aliases.mjs and createWebpackAliases              *)

\* exactly one of tsconfig.json and jsconfig.json exists and its baseUrl
\* names the project root
baseUrlIsRoot ==
    /\ tsConfig # jsConfig
    /\ ~baseUrlFalsy(baseUrl)
    /\ baseUrlDirectory = <<"app">>

\* C12: when tsconfig.json or jsconfig.json sets baseUrl to the project
\* root, the exported webpackAliases holds the alias src -> appSrc that
\* getWebpackAliases computes, next to the fifteen static '@' aliases.
C12_SrcAliasMerged ==
    (webpackAliases.state = "returned" /\ baseUrlIsRoot) =>
        LET exportedAliases == webpackAliases.value[1].own
        IN  /\ DOMAIN staticAliases \subseteq DOMAIN exportedAliases
            /\ "src" \in DOMAIN exportedAliases
            /\ exportedAliases["src"] = appSrc

\* C14: createWebpackAliases returns an object whose keys are exactly the
\* own enumerable properties of its argument, each with the value the
\* argument has for it, and applied to that result it returns an equal
\* object.
C14_CopiesOwnEnumerable ==
    /\ aliasPc \in {"created", "again"} =>
        LET result == aliasResult.value[1]
        IN  /\ DOMAIN result.own = { k \in DOMAIN aliases.own : k \notin aliases.hidden }
            /\ \A k \in DOMAIN result.own : result.own[k] = aliases.own[k]
    /\ aliasPc = "again" => aliasAgain = aliasResult


----------------------------------------------------------------------------
(* Properties of resolveModule (SpecResolve)                               *)

\* the file of filePath with the given extension exists
hasFile(extension) == <<"app", "/", filePath, ".", extension>> \in files

\* C15: resolveModule returns the path with the first extension, in the
\* order web.mjs, mjs, web.js, js, web.ts, ts, web.tsx, tsx, json, for which
\* the file exists, and the path with the extension js when none exists.
C15_FirstExistingExtension ==
    resolvePc = "resolved" =>
        LET order == <<"web.mjs", "mjs", "web.js", "js", "web.ts", "ts", "web.tsx",
                       "tsx", "json">>
            found == { i \in 1..9 : hasFile(order[i]) }
        IN  /\ found = {} => resolved = <<"app", "/", filePath, ".", "js">>
            /\ \A i \in found :
                 (\A j \in found : i <= j) =>
                     resolved = <<"app", "/", filePath, ".", order[i]>>

C15_Witness ==
    /\ resolvePc = "resolved"
    /\ filePath = "src/index"
    /\ ~hasFile("web.mjs") /\ ~hasFile("mjs") /\ ~hasFile("web.js") /\ ~hasFile("js")
    /\ ~hasFile("web.ts") /\ hasFile("ts") /\ hasFile("tsx") /\ hasFile("json")
    /\ resolved = <<"app", "/", "src/index", ".", "ts">>


----------------------------------------------------------------------------
(* More properties of getPublicUrlOrPath (SpecUrl)                         *)

\* getPublicUrlOrPath has just returned; the evaluation of
\* webpack.plugins.mjs that follows leaves its arguments and result alone
urlExported == urlPc = "exported"

\* the string is unset or empty, or new URL(string + '/', stubDomain) throws
unusable(str) ==
    ~Truthy(str) \/ ~ParseUrl(IF str[Len(str)] = "/" THEN str ELSE str \o <<"/">>,
                              stubDomain(isEnvDevelopment)).ok

slashed(str) ==
    IF Len(str) > 0 /\ str[Len(str)] = "/" THEN str ELSE str \o <<"/">>

\* C16: whenever PUBLIC_URL is non-empty and parses as a URL, the result is
\* the one the same call gives without a homepage: no homepage changes it.
C16_PublicUrlPrecedence ==
    (urlExported /\ ~unusable(envPublicUrl)) =>
        /\ urlConsole = <<>>
        /\ urlResult = getPublicUrlOrPath(isEnvDevelopment, Undefined, envPublicUrl).value

C16_Witness ==
    /\ urlReturned
    /\ isEnvDevelopment
    /\ envPublicUrl = <<"h", "t", "t", "p", ":", "/", "/", "a", "/", "a">>
    /\ homepage = <<"a", ":", "a">>
    /\ urlResult = <<"/", "a", "/">>

\* C17: in production a parseable PUBLIC_URL is returned as it is, with a
\* '/' appended when it does not end with one; put the other way round, a
\* production result that is not that string means PUBLIC_URL was unusable.
C17_ProductionVerbatim ==
    (urlExported /\ ~isEnvDevelopment /\ urlResult # slashed(envPublicUrl)) =>
        unusable(envPublicUrl)

C17_Witness ==
    /\ urlReturned
    /\ ~isEnvDevelopment
    /\ envPublicUrl = <<"h", "t", "t", "p", ":", "/", "/", "a">>
    /\ urlResult = <<"h", "t", "t", "p", ":", "/", "/", "a", "/">>

\* C18: in production with no usable PUBLIC_URL, a parseable homepage that
\* starts with '.' is returned as it is (with its trailing slash) and any
\* other parseable homepage is reduced to its URL pathname.
C18_ProductionHomepage ==
    (urlExported /\ ~isEnvDevelopment /\ unusable(envPublicUrl) /\ ~unusable(homepage)) =>
        urlResult = IF homepage[1] = "." THEN slashed(homepage)
                    ELSE pathname(ParseUrl(slashed(homepage), stubDomain(FALSE)))

C18_Witness ==
    /\ urlReturned
    /\ ~isEnvDevelopment
    /\ envPublicUrl = Undefined
    /\ homepage = <<".", "a">>
    /\ urlResult = <<".", "a", "/">>

\* the other case of C18: a full URL loses its scheme and host
C18_WitnessPathname ==
    /\ urlReturned
    /\ ~isEnvDevelopment
    /\ unusable(envPublicUrl)
    /\ homepage = <<"h", "t", "t", "p", ":", "/", "/", "a", "/", "a">>
    /\ urlResult = <<"/", "a", "/">>


----------------------------------------------------------------------------
(* Properties of config/webpack.config.js (SpecMerge)                      *)

\* C19: the returned configuration has the mode of the environment file
\* merged last, 'production' when env.production is truthy and
\* 'development' otherwise, whatever NODE_ENV made of the common mode.
C19_ModeOfEnvConfig ==
    mergePc = "returned" =>
        /\ merged["mode"].type = "string"
        /\ merged["mode"].val =
             (IF envProduction \in {JsUndefined, JsBoolean(FALSE), JsString("")}
              THEN "development" ELSE "production")

C19_Witness ==
    /\ mergePc = "returned"
    /\ cfgNodeEnv = JsString("production")
    /\ commonExport["mode"] = JsString("production")
    /\ envProduction = JsUndefined
    /\ merged["mode"] = JsString("development")


----------------------------------------------------------------------------
(* Properties of the style rules of webpack.rules.mjs (SpecStyle)          *)

\* the loader entry asks for source maps
sourceMapEnabled(entry) ==
    "sourceMap" \in DOMAIN entry.options /\ entry.options["sourceMap"].val = "true"

\* the lists getStyleLoaders has produced so far
styleLists == {cssRule, cssModuleRule, sassRule}

\* C20 as stated: when GENERATE_SOURCEMAP is 'false', no loader in any list
\* produced by getStyleLoaders has its sourceMap option enabled.
C20_NoSourceMaps ==
    GENERATE_SOURCEMAP = JsString("false") =>
        \A list \in styleLists : \A i \in 1..Len(list) : ~sourceMapEnabled(list[i])

\* C20 as amended: when GENERATE_SOURCEMAP is 'false', style-loader or the
\* extract loader, css-loader, postcss-loader and resolve-url-loader have no
\* sourceMap option enabled, and the preProcessor loader, the last entry of
\* a list built with a preProcessor, has sourceMap: true all the same.
C20_OnlyPreProcessorSourceMap ==
    GENERATE_SOURCEMAP = JsString("false") =>
        /\ \A list \in styleLists : \A i \in 1..Len(list) :
             sourceMapEnabled(list[i]) => list[i].loader = "sass-loader" /\ i = Len(list)
        /\ stylePc = "sass" =>
             /\ Len(sassRule) = 5
             /\ sassRule[5].loader = "sass-loader"
             /\ sourceMapEnabled(sassRule[5])

C20_Witness ==
    /\ stylePc = "sass"
    /\ GENERATE_SOURCEMAP = JsString("false")
    /\ styleNodeEnv = JsString("production")
    /\ Len(cssRule) = 3 /\ Len(cssModuleRule) = 3 /\ Len(sassRule) = 5
    /\ \A i \in 1..4 : ~sourceMapEnabled(sassRule[i])
    /\ sourceMapEnabled(sassRule[5])


----------------------------------------------------------------------------
(* Properties of commitlint.config.ts (SpecCommit)                         *)

\* C21: the types the type-enum rule accepts are the types the prompt
\* offers: a header with a type passes the rule exactly when the type is a
\* key of prompt.questions.type.enum.
C21_AcceptedEqualsOffered ==
    (commitPc = "linted" /\ commitType # "") =>
        ("type-enum" \notin lintErrors <=> commitType \in DOMAIN promptTypeEnum)


====
